---- MODULE Spec2Model ----
(***************************************************************************)
(* Model of ADSL DirectiveProcessor (src/ADSL/src/DirectiveProcessor.cpp). *)
(*                                                                         *)
(* One processor, its processing thread, the callers of onDirective,       *)
(* setDialogRequestId and shutdown, and the handler threads that call      *)
(* DirectiveHandlerResult::setCompleted / setFailed.  shutdown can be    *)
(* called again after it has returned (the destructor, line 60, does) and  *)
(* by two threads at once.                                                 *)
(*                                                                         *)
(* Every block of code that runs with m_mutex held is one action; the      *)
(* places where the code releases m_mutex around a DirectiveRouter call    *)
(* (lines 96-99, 240-244, 257-260) are the boundaries between actions, so  *)
(* every other thread can run between "mutex released" and "router         *)
(* called" and between "router returned" and "mutex re-acquired".          *)
(*                                                                         *)
(* A directive is represented by its message id, a number 1..MaxDirectives *)
(* given in the order in which the directives are admitted by onDirective  *)
(* (m_onDirectiveMutex serialises the calls, and message ids are unique).  *)
(* The dialogRequestId of a directive is read only by the comparison at    *)
(* line 86, so it is an input of that step and is not stored.              *)
(***************************************************************************)
EXTENDS Integers, Sequences, FiniteSets, TLC

\* Number of directives that onDirective admits past the dialog check.
MaxDirectives == 2

NoDirective == 0

Directives == 1..MaxDirectives

\* std::string values used as dialogRequestId; "" is the cleared value.
DialogRequestIds == {"", "D1", "D2"}

\* BlockingPolicy values written by DirectiveRouter::handleDirective.
BlockingPolicies == {"NONE", "NON_BLOCKING", "BLOCKING"}

VARIABLES
    m_dialogRequestId,            \* std::string
    m_directiveBeingPreHandled,   \* shared_ptr<AVSDirective>; NoDirective = nullptr
    m_handlingQueue,              \* std::deque
    m_cancelingQueue,             \* std::deque
    m_isHandlingDirective,        \* bool
    m_isShuttingDown,             \* bool
    m_handleMap,                  \* set of registered processor handles
    onDirectivePc,                \* position of the thread inside onDirective
    nextMessageId,                \* number of directives admitted so far
    preHandled,                   \* result of preHandleDirective, local "handled" of onDirective
    onDirectiveReturn,            \* value returned by the last onDirective call
    loopPc,                       \* position of the processing thread
    temp,                         \* local "temp" of processCancelingQueueLocked
    directive,                    \* local "directive" of handleDirectiveLocked
    handled,                      \* local "handled" of handleDirectiveLocked
    policy,                       \* local "policy" of handleDirectiveLocked
    shutdownPc,                   \* position inside shutdown -> number of callers at it
    m_processingThread,           \* std::thread: "joinable" until a join of it has returned
    resultPc,                     \* DirectiveHandlerResult call holding m_handleMapMutex
    resultIgnored,                \* a setCompleted/setFailed call took the "Ignored" return
    preHandleCalls,               \* router history: directive -> result of preHandleDirective
    handleCalls,                  \* router history: directives passed to handleDirective, in order
    cancelCalls,                  \* router history: directives passed to cancelDirective, in order
    blockingHandled,              \* history: directives still in m_handlingQueue whose handleDirective
                                  \* returned true with BLOCKING
    cancelCause,                  \* history: for a directive waiting in m_cancelingQueue or temp, the
                                  \* operation that queued it for cancellation
    owner,                        \* std::mutex -> thread holding it, or "free"
    at                            \* thread -> the statement of the source it is at

\* The callers of shutdown and the thread object they join.
shutdownVars == <<shutdownPc, m_processingThread>>

\* The state of the processor, its callers and the router history.
processorVars == <<m_dialogRequestId, m_directiveBeingPreHandled, m_handlingQueue,
                   m_cancelingQueue, m_isHandlingDirective, m_isShuttingDown, m_handleMap,
                   onDirectivePc, nextMessageId, preHandled, onDirectiveReturn, loopPc, temp,
                   directive, handled, policy, shutdownVars, resultPc, resultIgnored,
                   preHandleCalls, handleCalls, blockingHandled, cancelCalls, cancelCause>>

\* The mutexes and the threads' positions between lock and unlock statements.
lockVars == <<owner, at>>

vars == <<processorVars, lockVars>>

\* The fields guarded by m_mutex, as the specification's "processor state".
lockedState == <<m_dialogRequestId, m_directiveBeingPreHandled, m_handlingQueue, m_cancelingQueue,
                 m_isHandlingDirective, m_isShuttingDown>>

routerHistory == <<preHandleCalls, handleCalls, cancelCalls>>

m_handle == 1

\* m_mutex, m_onDirectiveMutex and the static m_handleMapMutex.
Mutexes == {"m_mutex", "m_onDirectiveMutex", "m_handleMapMutex"}

\* Callers of onDirective, of setDialogRequestId, of shutdown and of a DirectiveHandlerResult,
\* and m_processingThread.
OnDirectiveThreads == {"onDirective1", "onDirective2"}
ShutdownThreads == {"shutdown1", "shutdown2"}

\* The positions of a caller of shutdown: outside a call that has not been made or that has
\* returned, after line 115, after line 121, inside join, and inside a join that never
\* returns normally.
ShutdownPositions == {"idle", "erased", "unlocked", "joining", "returned", "undefined"}
Threads == OnDirectiveThreads \cup ShutdownThreads
               \cup {"setDialogRequestId", "DirectiveHandlerResult", "processingThread"}

Range(q) == {q[i] : i \in 1..Len(q)}

\* findDirectiveInQueueLocked: index of the first element with the message id, 0 for end().
findDirectiveInQueueLocked(messageId, queue) ==
    IF \E i \in 1..Len(queue) : queue[i] = messageId
    THEN CHOOSE i \in 1..Len(queue) :
            queue[i] = messageId /\ \A j \in 1..(i - 1) : queue[j] # messageId
    ELSE 0

\* queue.erase(it)
Erase(queue, it) == [i \in 1..(Len(queue) - 1) |-> IF i < it THEN queue[i] ELSE queue[i + 1]]

(***************************************************************************)
(* The helpers that run with m_mutex held work on a record of the guarded  *)
(* fields; "notify" collects m_wakeProcessingLoop.notify_one().            *)
(***************************************************************************)
Locked ==
    [dialogRequestId |-> m_dialogRequestId,
     directiveBeingPreHandled |-> m_directiveBeingPreHandled,
     handlingQueue |-> m_handlingQueue,
     cancelingQueue |-> m_cancelingQueue,
     isHandlingDirective |-> m_isHandlingDirective,
     notify |-> FALSE]

\* queueAllDirectivesForCancellationLocked with push_front instead of push_back at line 281.
queueAllPushFront(s) ==
    LET hq == IF s.directiveBeingPreHandled # NoDirective
              THEN <<s.directiveBeingPreHandled>> \o s.handlingQueue
              ELSE s.handlingQueue
    IN  [s EXCEPT !.dialogRequestId = "",
                  !.directiveBeingPreHandled = NoDirective,
                  !.handlingQueue = <<>>,
                  !.cancelingQueue = s.cancelingQueue \o hq,
                  !.notify = s.notify \/ hq # <<>>,
                  !.isHandlingDirective = FALSE]

\* queueAllDirectivesForCancellationLocked without m_handlingQueue.clear().
queueAllWithoutClear(s) ==
    LET hq == IF s.directiveBeingPreHandled # NoDirective
              THEN Append(s.handlingQueue, s.directiveBeingPreHandled)
              ELSE s.handlingQueue
    IN  [s EXCEPT !.dialogRequestId = "",
                  !.directiveBeingPreHandled = NoDirective,
                  !.handlingQueue = hq,
                  !.cancelingQueue = s.cancelingQueue \o hq,
                  !.notify = s.notify \/ hq # <<>>,
                  !.isHandlingDirective = FALSE]

queueAllDirectivesForCancellationLocked(s) ==
    LET hq == IF s.directiveBeingPreHandled # NoDirective
              THEN Append(s.handlingQueue, s.directiveBeingPreHandled)
              ELSE s.handlingQueue
    IN  [s EXCEPT !.dialogRequestId = "",
                  !.directiveBeingPreHandled = NoDirective,
                  !.handlingQueue = <<>>,
                  !.cancelingQueue = s.cancelingQueue \o hq,
                  !.notify = s.notify \/ hq # <<>>,
                  !.isHandlingDirective = FALSE]

\* removeDirectiveFromQueueLocked without the notify_one at line 217.
removeDirectiveWithoutNotify(it, queue) ==
    [queue |-> Erase(queue, it), notify |-> FALSE]

\* The queue after the erase, and whether notify_one was called.
removeDirectiveFromQueueLocked(it, queue) ==
    LET q == Erase(queue, it)
    IN  [queue |-> q, notify |-> q # <<>>]

\* removeFromHandlingQueueLocked without lines 187-189.
removeFromHandlingQueueKeepsFlag(s, messageId) ==
    LET it == findDirectiveInQueueLocked(messageId, s.handlingQueue)
        r  == removeDirectiveFromQueueLocked(it, s.handlingQueue)
    IN  IF it = 0 THEN s
        ELSE [s EXCEPT !.handlingQueue = r.queue,
                       !.notify = s.notify \/ r.notify]

\* removeFromHandlingQueueLocked clearing m_isHandlingDirective wherever the directive is found.
removeFromHandlingQueueAnyPosition(s, messageId) ==
    LET it == findDirectiveInQueueLocked(messageId, s.handlingQueue)
        r  == removeDirectiveFromQueueLocked(it, s.handlingQueue)
    IN  IF it = 0 THEN s
        ELSE [s EXCEPT !.isHandlingDirective = FALSE,
                       !.handlingQueue = r.queue,
                       !.notify = s.notify \/ r.notify]

removeFromHandlingQueueLocked(s, messageId) ==
    LET it == findDirectiveInQueueLocked(messageId, s.handlingQueue)
        r  == removeDirectiveFromQueueLocked(it, s.handlingQueue)
    IN  IF it = 0 THEN s
        ELSE [s EXCEPT !.isHandlingDirective = IF s.isHandlingDirective /\ it = 1 THEN FALSE ELSE @,
                       !.handlingQueue = r.queue,
                       !.notify = s.notify \/ r.notify]

removeFromCancelingQueueLocked(s, messageId) ==
    LET it == findDirectiveInQueueLocked(messageId, s.cancelingQueue)
        r  == removeDirectiveFromQueueLocked(it, s.cancelingQueue)
    IN  IF it = 0 THEN s
        ELSE [s EXCEPT !.cancelingQueue = r.queue,
                       !.notify = s.notify \/ r.notify]

onHandlingCompleted(s, messageId) ==
    IF s.directiveBeingPreHandled # NoDirective /\ s.directiveBeingPreHandled = messageId
    THEN [s EXCEPT !.directiveBeingPreHandled = NoDirective]
    ELSE IF findDirectiveInQueueLocked(messageId, s.handlingQueue) # 0
    THEN removeFromHandlingQueueLocked(s, messageId)
    ELSE removeFromCancelingQueueLocked(s, messageId)

\* onHandlingFailed canceling everything also when the directive was found in
\* m_cancelingQueue only.
onHandlingFailedRecancels(s, messageId) ==
    IF s.directiveBeingPreHandled # NoDirective /\ s.directiveBeingPreHandled = messageId
    THEN queueAllDirectivesForCancellationLocked([s EXCEPT !.directiveBeingPreHandled = NoDirective])
    ELSE IF findDirectiveInQueueLocked(messageId, s.handlingQueue) # 0
    THEN queueAllDirectivesForCancellationLocked(removeFromHandlingQueueLocked(s, messageId))
    ELSE queueAllDirectivesForCancellationLocked(removeFromCancelingQueueLocked(s, messageId))

onHandlingFailed(s, messageId) ==
    IF s.directiveBeingPreHandled # NoDirective /\ s.directiveBeingPreHandled = messageId
    THEN queueAllDirectivesForCancellationLocked([s EXCEPT !.directiveBeingPreHandled = NoDirective])
    ELSE IF findDirectiveInQueueLocked(messageId, s.handlingQueue) # 0
    THEN queueAllDirectivesForCancellationLocked(removeFromHandlingQueueLocked(s, messageId))
    ELSE removeFromCancelingQueueLocked(s, messageId)

\* Writes the guarded fields back when a caller releases m_mutex, and brings the two
\* histories that follow the queues up to date: a directive that left m_handlingQueue is no
\* longer a pending BLOCKING one, a directive that entered m_cancelingQueue was queued by
\* "cause", and one that left it (removeFromCancelingQueueLocked) is no longer waiting.
\* The record "locked" is evaluated once, as s.
Unlock(locked, cause) ==
    \E s \in {locked} :
        /\ m_dialogRequestId' = s.dialogRequestId
        /\ m_directiveBeingPreHandled' = s.directiveBeingPreHandled
        /\ m_handlingQueue' = s.handlingQueue
        /\ m_cancelingQueue' = s.cancelingQueue
        /\ m_isHandlingDirective' = s.isHandlingDirective
        /\ blockingHandled' = blockingHandled \cap Range(s.handlingQueue)
        /\ cancelCause' =
             [d \in Directives |->
                IF d \in Range(s.cancelingQueue) /\ d \notin Range(m_cancelingQueue) THEN cause
                ELSE IF d \in Range(m_cancelingQueue) /\ d \notin Range(s.cancelingQueue) THEN "none"
                ELSE cancelCause[d]]

\* m_wakeProcessingLoop.notify_one(): wakes the processing thread if it is waiting.
Notify(s) == loopPc' = IF s.notify /\ loopPc = "blocked" THEN "wait" ELSE loopPc

Init ==
    /\ m_dialogRequestId = ""
    /\ m_directiveBeingPreHandled = NoDirective
    /\ m_handlingQueue = <<>>
    /\ m_cancelingQueue = <<>>
    /\ m_isHandlingDirective = FALSE
    /\ m_isShuttingDown = FALSE
    /\ m_handleMap = {m_handle}
    /\ onDirectivePc = "idle"
    /\ nextMessageId = 0
    /\ preHandled = FALSE
    /\ onDirectiveReturn = "none"
    /\ loopPc = "wait"
    /\ temp = <<>>
    /\ directive = NoDirective
    /\ handled = FALSE
    /\ policy = "NONE"
    /\ shutdownPc = [p \in ShutdownPositions |->
                        IF p = "idle" THEN Cardinality(ShutdownThreads) ELSE 0]
    /\ m_processingThread = "joinable"
    /\ resultPc = <<>>
    /\ resultIgnored = FALSE
    /\ preHandleCalls = [d \in Directives |-> "none"]
    /\ handleCalls = <<>>
    /\ cancelCalls = <<>>
    /\ blockingHandled = {}
    /\ cancelCause = [d \in Directives |-> "none"]
    /\ owner = [m \in Mutexes |-> "free"]
    /\ at = [t \in Threads |-> IF t = "processingThread" THEN "lockMutex" ELSE "idle"]

workerVars == <<temp, directive, handled, policy>>
onDirectiveVars == <<onDirectivePc, nextMessageId, preHandled, onDirectiveReturn>>
resultVars == <<resultPc, resultIgnored>>

(***************************************************************************)
(* setDialogRequestId                                                      *)
(***************************************************************************)
setDialogRequestId(dialogRequestId) ==
    IF dialogRequestId = m_dialogRequestId
    THEN UNCHANGED vars
    ELSE /\ LET s == [queueAllDirectivesForCancellationLocked(Locked)
                         EXCEPT !.dialogRequestId = dialogRequestId]
            IN  Unlock(s, "setDialogRequestId") /\ Notify(s)
         /\ UNCHANGED <<m_isShuttingDown, m_handleMap, onDirectiveVars, workerVars, shutdownVars,
                        resultVars, routerHistory, lockVars>>

(***************************************************************************)
(* onDirective.  One caller at a time is past m_onDirectiveMutex.          *)
(***************************************************************************)
\* Lines 75-78: a null directive is refused before any lock is taken, whatever another
\* caller of onDirective is doing.
onDirectiveNull ==
    /\ onDirectiveReturn' = "false"
    /\ UNCHANGED <<lockedState, m_handleMap, onDirectivePc, nextMessageId, preHandled,
                   loopPc, workerVars, shutdownVars, resultVars, routerHistory, blockingHandled,
                   cancelCause>>
    /\ UNCHANGED lockVars

\* onDirectiveLocked returning false at line 93.
onDirectiveLockedDropFails(dialogRequestId) ==
    /\ onDirectivePc = "idle"
    /\ IF m_isShuttingDown \/ dialogRequestId # m_dialogRequestId
       THEN /\ onDirectiveReturn' = "false"
            /\ UNCHANGED <<m_directiveBeingPreHandled, onDirectivePc, nextMessageId>>
       ELSE /\ nextMessageId < MaxDirectives
            /\ nextMessageId' = nextMessageId + 1
            /\ m_directiveBeingPreHandled' = nextMessageId + 1
            /\ onDirectivePc' = "unlocked"
            /\ onDirectiveReturn' = "none"
    /\ UNCHANGED <<m_dialogRequestId, m_handlingQueue, m_cancelingQueue, m_isHandlingDirective,
                   m_isShuttingDown, m_handleMap, preHandled, loopPc, workerVars, shutdownVars,
                   resultVars, routerHistory, blockingHandled, cancelCause>>
    /\ UNCHANGED lockVars

\* onDirectiveLocked without the test of m_isShuttingDown at line 81.
onDirectiveLockedNoShutdownTest(dialogRequestId) ==
    /\ onDirectivePc = "idle"
    /\ IF dialogRequestId # m_dialogRequestId
       THEN /\ onDirectiveReturn' = "true"
            /\ UNCHANGED <<m_directiveBeingPreHandled, onDirectivePc, nextMessageId>>
       ELSE /\ nextMessageId < MaxDirectives
            /\ nextMessageId' = nextMessageId + 1
            /\ m_directiveBeingPreHandled' = nextMessageId + 1
            /\ onDirectivePc' = "unlocked"
            /\ onDirectiveReturn' = "none"
    /\ UNCHANGED <<m_dialogRequestId, m_handlingQueue, m_cancelingQueue, m_isHandlingDirective,
                   m_isShuttingDown, m_handleMap, preHandled, loopPc, workerVars, shutdownVars,
                   resultVars, routerHistory, blockingHandled, cancelCause>>
    /\ UNCHANGED lockVars

\* Lines 79-96: the checks under m_mutex, up to lock.unlock().
\* dialogRequestId is directive->getDialogRequestId().
onDirectiveLocked(dialogRequestId) ==
    /\ onDirectivePc = "idle"
    /\ IF m_isShuttingDown
       THEN /\ onDirectiveReturn' = "false"
            /\ UNCHANGED <<m_directiveBeingPreHandled, onDirectivePc, nextMessageId>>
       ELSE IF dialogRequestId # m_dialogRequestId
       THEN /\ onDirectiveReturn' = "true"
            /\ UNCHANGED <<m_directiveBeingPreHandled, onDirectivePc, nextMessageId>>
       ELSE /\ nextMessageId < MaxDirectives
            /\ nextMessageId' = nextMessageId + 1
            /\ m_directiveBeingPreHandled' = nextMessageId + 1
            /\ onDirectivePc' = "unlocked"
            /\ onDirectiveReturn' = "none"
    /\ UNCHANGED <<m_dialogRequestId, m_handlingQueue, m_cancelingQueue, m_isHandlingDirective,
                   m_isShuttingDown, m_handleMap, preHandled, loopPc, workerVars, shutdownVars,
                   resultVars, routerHistory, blockingHandled, cancelCause>>
    /\ UNCHANGED lockVars

\* Lines 97-98: m_directiveRouter->preHandleDirective(directive, result) with no lock but
\* m_onDirectiveMutex held; the router's answer is an input.
preHandleDirective(result) ==
    /\ onDirectivePc = "unlocked"
    /\ preHandleCalls' = [preHandleCalls EXCEPT ![nextMessageId] = IF result THEN "accepted" ELSE "rejected"]
    /\ preHandled' = result
    /\ onDirectivePc' = "preHandled"
    /\ UNCHANGED <<lockedState, m_handleMap, nextMessageId, onDirectiveReturn, loopPc, workerVars,
                   shutdownVars, resultVars, handleCalls, cancelCalls, blockingHandled, cancelCause>>
    /\ UNCHANGED lockVars

\* onDirectiveRelocked without the test of m_directiveBeingPreHandled at line 100.
onDirectiveRelockedUnchecked ==
    /\ onDirectivePc = "preHandled"
    /\ LET s == [Locked EXCEPT !.directiveBeingPreHandled = NoDirective,
                               !.handlingQueue = IF preHandled THEN Append(@, nextMessageId) ELSE @,
                               !.notify = preHandled]
       IN  Unlock(s, "onDirective") /\ Notify(s)
    /\ onDirectiveReturn' = IF preHandled THEN "true" ELSE "false"
    /\ onDirectivePc' = "idle"
    /\ preHandled' = FALSE
    /\ UNCHANGED <<m_isShuttingDown, m_handleMap, nextMessageId, workerVars, shutdownVars,
                   resultVars, routerHistory>>
    /\ UNCHANGED lockVars

\* Lines 99-108: lock.lock() to return.
onDirectiveRelocked ==
    /\ onDirectivePc = "preHandled"
    /\ LET s == IF m_directiveBeingPreHandled # NoDirective
                THEN [Locked EXCEPT !.directiveBeingPreHandled = NoDirective,
                                    !.handlingQueue = IF preHandled THEN Append(@, nextMessageId) ELSE @,
                                    !.notify = preHandled]
                ELSE Locked
       IN  Unlock(s, "onDirective") /\ Notify(s)
    /\ onDirectiveReturn' = IF preHandled THEN "true" ELSE "false"
    /\ onDirectivePc' = "idle"
    /\ preHandled' = FALSE
    /\ UNCHANGED <<m_isShuttingDown, m_handleMap, nextMessageId, workerVars, shutdownVars,
                   resultVars, routerHistory>>
    /\ UNCHANGED lockVars

(***************************************************************************)
(* processingLoop                                                          *)
(***************************************************************************)
\* The wait predicate without its m_isShuttingDown disjunct (line 224).
wakeIgnoresShutdown ==
    \/ m_cancelingQueue # <<>>
    \/ (m_handlingQueue # <<>> /\ ~m_isHandlingDirective)

wake ==
    \/ m_cancelingQueue # <<>>
    \/ (m_handlingQueue # <<>> /\ ~m_isHandlingDirective)
    \/ m_isShuttingDown

\* Lines 227-229 with m_mutex held: the wait, then processCancelingQueueLocked up to its
\* lock.unlock() (line 240), or handleDirectiveLocked up to its lock.unlock() (line 257),
\* or the break.
processingLoop ==
    /\ loopPc = "wait"
    /\ IF ~wake
       THEN /\ loopPc' = "blocked"
            /\ UNCHANGED <<m_cancelingQueue, m_isHandlingDirective, temp, directive>>
       ELSE IF m_cancelingQueue # <<>>
       THEN /\ temp' = m_cancelingQueue
            /\ m_cancelingQueue' = <<>>
            /\ loopPc' = "canceling"
            /\ UNCHANGED <<m_isHandlingDirective, directive>>
       ELSE IF m_handlingQueue = <<>>
       THEN /\ loopPc' = IF m_isShuttingDown THEN "done" ELSE "wait"
            /\ UNCHANGED <<m_cancelingQueue, m_isHandlingDirective, temp, directive>>
       ELSE IF m_isHandlingDirective
       THEN UNCHANGED <<loopPc, m_cancelingQueue, m_isHandlingDirective, temp, directive>>
       ELSE /\ directive' = Head(m_handlingQueue)
            /\ m_isHandlingDirective' = TRUE
            /\ loopPc' = "handling"
            /\ UNCHANGED <<m_cancelingQueue, temp>>
    /\ UNCHANGED <<m_dialogRequestId, m_directiveBeingPreHandled, m_handlingQueue, m_isShuttingDown,
                   m_handleMap, onDirectiveVars, handled, policy, shutdownVars, resultVars,
                   routerHistory, blockingHandled, cancelCause>>
    /\ UNCHANGED lockVars

\* std::condition_variable::wait may return without a notify; the predicate is re-evaluated.
spuriousWakeup ==
    /\ loopPc = "blocked"
    /\ loopPc' = "wait"
    /\ UNCHANGED <<lockedState, m_handleMap, onDirectiveVars, workerVars, shutdownVars, resultVars,
                   routerHistory, blockingHandled, cancelCause>>
    /\ UNCHANGED lockVars

\* Lines 241-245: one iteration of the loop over temp; after the last one lock.lock().
cancelDirective ==
    /\ loopPc = "canceling"
    /\ cancelCalls' = Append(cancelCalls, Head(temp))
    /\ cancelCause' = [cancelCause EXCEPT ![Head(temp)] = "none"]
    /\ temp' = Tail(temp)
    /\ loopPc' = IF Tail(temp) = <<>> THEN "wait" ELSE "canceling"
    /\ UNCHANGED <<lockedState, m_handleMap, onDirectiveVars, directive, handled, policy,
                   shutdownVars, resultVars, preHandleCalls, handleCalls, blockingHandled>>
    /\ UNCHANGED lockVars

\* Lines 258-259: m_directiveRouter->handleDirective(directive, &policy), no lock held; the
\* router's answer is an input.
handleDirective(result, resultPolicy) ==
    /\ loopPc = "handling"
    /\ handleCalls' = Append(handleCalls, directive)
    /\ blockingHandled' = IF result /\ resultPolicy = "BLOCKING" /\ directive \in Range(m_handlingQueue)
                          THEN blockingHandled \cup {directive} ELSE blockingHandled
    /\ handled' = result
    /\ policy' = resultPolicy
    /\ loopPc' = "handled"
    /\ UNCHANGED <<lockedState, m_handleMap, onDirectiveVars, temp, directive, shutdownVars,
                   resultVars, preHandleCalls, cancelCalls, cancelCause>>
    /\ UNCHANGED lockVars

\* Lines 260-275: lock.lock() to return true.
handleDirectiveLocked ==
    /\ loopPc = "handled"
    /\ LET s1 == IF ~handled \/ policy # "BLOCKING"
                 THEN [Locked EXCEPT
                         !.isHandlingDirective = FALSE,
                         !.handlingQueue = IF @ # <<>> /\ Head(@) = directive THEN Tail(@) ELSE @]
                 ELSE Locked
           s2 == IF ~handled THEN queueAllDirectivesForCancellationLocked(s1) ELSE s1
       IN  Unlock(s2, "handleDirectiveLocked")
    /\ loopPc' = "wait"
    /\ directive' = NoDirective
    /\ handled' = FALSE
    /\ policy' = "NONE"
    /\ UNCHANGED <<m_isShuttingDown, m_handleMap, onDirectiveVars, temp, shutdownVars, resultVars,
                   routerHistory>>
    /\ UNCHANGED lockVars

(***************************************************************************)
(* shutdown                                                                *)
(***************************************************************************)
\* A caller of shutdown goes from one position to another.  The callers run the same code
\* and nothing in the processor tells them apart, so shutdownPc counts them.
shutdownStep(from, to) ==
    /\ shutdownPc[from] > 0
    /\ shutdownPc' = [shutdownPc EXCEPT ![from] = @ - 1, ![to] = @ + 1]

\* Lines 112-115, under m_handleMapMutex.  shutdown is public and the destructor (line 60)
\* calls it too, so a caller can run it again after it has returned, and another caller can
\* run it meanwhile.
shutdownErase ==
    /\ \E from \in {"idle", "returned"} : shutdownStep(from, "erased")
    /\ resultPc = <<>>
    /\ m_handleMap' = m_handleMap \ {m_handle}
    /\ UNCHANGED <<lockedState, m_processingThread, onDirectiveVars, loopPc, workerVars,
                   resultVars, routerHistory, blockingHandled, cancelCause>>
    /\ UNCHANGED lockVars

\* Lines 116-121, under m_mutex.
shutdownLocked ==
    /\ shutdownStep("erased", "unlocked")
    /\ LET s == [queueAllDirectivesForCancellationLocked(Locked) EXCEPT !.notify = TRUE]
       IN  Unlock(s, "shutdown") /\ Notify(s)
    /\ m_isShuttingDown' = TRUE
    /\ UNCHANGED <<m_handleMap, m_processingThread, onDirectiveVars, workerVars, resultVars,
                   routerHistory>>
    /\ UNCHANGED lockVars

\* Line 122, with no lock held: m_processingThread is joinable until a join of it has
\* returned; a caller that finds it not joinable returns.
shutdownJoinable ==
    /\ shutdownStep("unlocked", IF m_processingThread = "joinable" THEN "joining" ELSE "returned")
    /\ UNCHANGED <<lockedState, m_handleMap, m_processingThread, onDirectiveVars, loopPc,
                   workerVars, resultVars, routerHistory, blockingHandled, cancelCause>>
    /\ UNCHANGED lockVars

\* A join runs together with, or after, another join of m_processingThread: std::thread
\* gives no meaning to that (two unsynchronised joins of one thread object).
joinRaced ==
    \/ m_processingThread = "joined"
    \/ shutdownPc["joining"] + shutdownPc["undefined"] > 1

\* Line 123: join returns once processingLoop has returned.  A raced join has any of
\* the outcomes of the undefined behaviour: it returns after the thread has ended, or the
\* call never returns normally ("undefined": it blocks for ever or leaves by an exception).
shutdownJoin ==
    /\ \/ /\ loopPc = "done"
          /\ shutdownStep("joining", "returned")
          /\ m_processingThread' = "joined"
       \/ /\ joinRaced
          /\ shutdownStep("joining", "undefined")
          /\ UNCHANGED m_processingThread
    /\ UNCHANGED <<lockedState, m_handleMap, onDirectiveVars, loopPc, workerVars, resultVars,
                   routerHistory, blockingHandled, cancelCause>>
    /\ UNCHANGED lockVars

(***************************************************************************)
(* DirectiveHandlerResult.  A result object exists for a directive once    *)
(* preHandleDirective has been called with it (line 98).                   *)
(***************************************************************************)
\* resultLookup without the test of m_handleMap.end() at lines 135 / 145.
resultLookupUnchecked(method, messageId) ==
    /\ resultPc = <<>>
    /\ preHandleCalls[messageId] # "none"
    /\ resultPc' = <<method, messageId>>
    /\ UNCHANGED <<lockedState, m_handleMap, onDirectiveVars, loopPc, workerVars, shutdownVars,
                   resultIgnored, routerHistory, blockingHandled, cancelCause>>
    /\ UNCHANGED lockVars

\* Lines 133-138 / 143-148: lock m_handleMapMutex and look m_processorHandle up.
resultLookup(method, messageId) ==
    /\ resultPc = <<>>
    /\ preHandleCalls[messageId] # "none"
    /\ IF m_handle \in m_handleMap
       THEN resultPc' = <<method, messageId>> /\ UNCHANGED resultIgnored
       ELSE resultIgnored' = TRUE /\ UNCHANGED resultPc
    /\ UNCHANGED <<lockedState, m_handleMap, onDirectiveVars, loopPc, workerVars, shutdownVars,
                   routerHistory, blockingHandled, cancelCause>>
    /\ UNCHANGED lockVars

\* Line 139 / 149: it->second->onHandlingCompleted / onHandlingFailed under both mutexes.
resultApply ==
    /\ resultPc # <<>>
    /\ LET s == IF resultPc[1] = "setCompleted"
                THEN onHandlingCompleted(Locked, resultPc[2])
                ELSE onHandlingFailed(Locked, resultPc[2])
       IN  Unlock(s, IF resultPc[2] = m_directiveBeingPreHandled
                     THEN "onHandlingFailed:directiveBeingPreHandled"
                     ELSE "onHandlingFailed:handlingQueue") /\ Notify(s)
    /\ resultPc' = <<>>
    /\ UNCHANGED <<m_isShuttingDown, m_handleMap, onDirectiveVars, workerVars, shutdownVars,
                   resultIgnored, routerHistory>>
    /\ UNCHANGED lockVars

Next ==
    \/ \E id \in DialogRequestIds : setDialogRequestId(id)
    \/ onDirectiveNull
    \/ \E id \in DialogRequestIds : onDirectiveLocked(id)
    \/ \E r \in BOOLEAN : preHandleDirective(r)
    \/ onDirectiveRelocked
    \/ processingLoop
    \/ spuriousWakeup
    \/ cancelDirective
    \/ \E r \in BOOLEAN, p \in BlockingPolicies : handleDirective(r, p)
    \/ handleDirectiveLocked
    \/ shutdownErase
    \/ shutdownLocked
    \/ shutdownJoinable
    \/ shutdownJoin
    \/ \E m \in {"setCompleted", "setFailed"}, d \in Directives : resultLookup(m, d)
    \/ resultApply

Spec == Init /\ [][Next]_vars

\* The processing thread is scheduled and the router's cancelDirective and handleDirective
\* return: every step of the processing thread that stays possible is eventually taken.
processingThread ==
    \/ processingLoop
    \/ cancelDirective
    \/ \E r \in BOOLEAN, p \in BlockingPolicies : handleDirective(r, p)
    \/ handleDirectiveLocked

LiveSpec == Spec /\ WF_vars(processingThread)

(***************************************************************************)
(* Locking.  The same operations with every lock and unlock statement as a *)
(* step of its own: "at" is the statement a thread is at, "owner" the      *)
(* holder of each mutex.  The branches that depend on the queues are taken *)
(* nondeterministically; m_isShuttingDown and m_handleMap are written and  *)
(* read as in the code.  A router call returns on its own: nothing in the  *)
(* processor ties it to a result call.                                     *)
(***************************************************************************)
\* What the locking steps leave alone apart from m_isShuttingDown, m_handleMap and
\* m_processingThread.
lockingFrame == <<m_dialogRequestId, m_directiveBeingPreHandled, m_handlingQueue,
                  m_cancelingQueue, m_isHandlingDirective, onDirectiveVars, loopPc, workerVars,
                  shutdownPc, resultVars, routerHistory, blockingHandled, cancelCause>>

step(t, from, to) == at[t] = from /\ at' = [at EXCEPT ![t] = to]

\* std::mutex::lock: blocks while another thread holds the mutex.
lock(t, m) == owner[m] = "free" /\ owner' = [owner EXCEPT ![m] = t]

\* std::mutex::unlock, and the destructors of lock_guard and unique_lock.
unlock(t, ms) ==
    /\ \A m \in ms : owner[m] = t
    /\ owner' = [m \in Mutexes |-> IF m \in ms THEN "free" ELSE owner[m]]

\* The statements at which a thread is inside a DirectiveRouter call.
RouterCalls == {"preHandleDirective", "cancelDirective", "handleDirective"}

\* onDirective, lines 74-109.  On a return the unique_lock on m_mutex is destroyed first,
\* the lock_guard on m_onDirectiveMutex after it.
onDirectiveLocking(t) ==
    /\ \/ step(t, "idle", "lockOnDirectiveMutex") /\ UNCHANGED owner
       \/ step(t, "lockOnDirectiveMutex", "lockMutex") /\ lock(t, "m_onDirectiveMutex")
       \/ step(t, "lockMutex", "checks") /\ lock(t, "m_mutex")
       \/ step(t, "checks", "unlockOnDirectiveMutex") /\ unlock(t, {"m_mutex"})
       \/ /\ ~m_isShuttingDown
          /\ step(t, "checks", "preHandleDirective") /\ unlock(t, {"m_mutex"})
       \/ step(t, "preHandleDirective", "relock") /\ UNCHANGED owner
       \/ step(t, "relock", "enqueue") /\ lock(t, "m_mutex")
       \/ step(t, "enqueue", "unlockOnDirectiveMutex") /\ unlock(t, {"m_mutex"})
       \/ step(t, "unlockOnDirectiveMutex", "idle") /\ unlock(t, {"m_onDirectiveMutex"})
    /\ UNCHANGED processorVars

\* setDialogRequestId, lines 63-72.
setDialogRequestIdLocking ==
    /\ \/ step("setDialogRequestId", "idle", "lockMutex") /\ UNCHANGED owner
       \/ step("setDialogRequestId", "lockMutex", "set") /\ lock("setDialogRequestId", "m_mutex")
       \/ step("setDialogRequestId", "set", "idle") /\ unlock("setDialogRequestId", {"m_mutex"})
    /\ UNCHANGED processorVars

\* processCancelingQueueLocked, lines 235-246, and the end of the loop body.
processCancelingQueueLocking ==
    /\ \/ step("processingThread", "wait", "cancelDirective")
              /\ unlock("processingThread", {"m_mutex"})
       \/ step("processingThread", "cancelDirective", "relockCancel") /\ UNCHANGED owner
       \/ step("processingThread", "relockCancel", "canceled")
              /\ lock("processingThread", "m_mutex")
       \/ step("processingThread", "canceled", "lockMutex")
              /\ unlock("processingThread", {"m_mutex"})
    /\ UNCHANGED processorVars

\* handleDirectiveLocked calling the router without lock.unlock() and lock.lock().
handleDirectiveLockingHeld ==
    /\ \/ step("processingThread", "wait", "handleDirective") /\ UNCHANGED owner
       \/ step("processingThread", "handleDirective", "relockHandle") /\ UNCHANGED owner
       \/ step("processingThread", "relockHandle", "handled") /\ UNCHANGED owner
       \/ step("processingThread", "handled", "lockMutex")
              /\ unlock("processingThread", {"m_mutex"})
    /\ UNCHANGED processorVars

\* handleDirectiveLocked, lines 248-276, and the end of the loop body.
handleDirectiveLocking ==
    /\ \/ step("processingThread", "wait", "handleDirective")
              /\ unlock("processingThread", {"m_mutex"})
       \/ step("processingThread", "handleDirective", "relockHandle") /\ UNCHANGED owner
       \/ step("processingThread", "relockHandle", "handled")
              /\ lock("processingThread", "m_mutex")
       \/ step("processingThread", "handled", "lockMutex")
              /\ unlock("processingThread", {"m_mutex"})
    /\ UNCHANGED processorVars

\* processingLoop, lines 226-232: the lock at the top of the loop body, the wait on
\* m_wakeProcessingLoop (which releases m_mutex and takes it again), the end of a loop body
\* in which neither function released m_mutex, and the break.
processingLoopLocking ==
    /\ \/ step("processingThread", "lockMutex", "wait") /\ lock("processingThread", "m_mutex")
       \/ /\ ~m_isShuttingDown
          /\ step("processingThread", "wait", "cvwait")
          /\ unlock("processingThread", {"m_mutex"})
       \/ step("processingThread", "cvwait", "wait") /\ lock("processingThread", "m_mutex")
       \/ step("processingThread", "wait", "lockMutex")
              /\ unlock("processingThread", {"m_mutex"})
       \/ /\ m_isShuttingDown
          /\ step("processingThread", "wait", "done")
          /\ unlock("processingThread", {"m_mutex"})
    /\ UNCHANGED processorVars

\* shutdown, lines 111-125.  A caller can run it again once it has returned (the
\* destructor, line 60, does); m_processingThread is joinable (line 122) until a join of it
\* has returned.  A join that runs together with, or after, another join of the thread is
\* undefined: it returns after the thread has ended, or it never returns normally.
shutdownLocking(t) ==
    /\ \/ /\ at[t] \in {"idle", "done"}
          /\ at' = [at EXCEPT ![t] = "lockHandleMapMutex"]
          /\ UNCHANGED <<owner, m_handleMap, m_isShuttingDown, m_processingThread>>
       \/ /\ step(t, "lockHandleMapMutex", "erase")
          /\ lock(t, "m_handleMapMutex")
          /\ UNCHANGED <<m_handleMap, m_isShuttingDown, m_processingThread>>
       \/ /\ step(t, "erase", "lockMutex")
          /\ unlock(t, {"m_handleMapMutex"})
          /\ m_handleMap' = m_handleMap \ {m_handle}
          /\ UNCHANGED <<m_isShuttingDown, m_processingThread>>
       \/ /\ step(t, "lockMutex", "queueAll")
          /\ lock(t, "m_mutex")
          /\ UNCHANGED <<m_handleMap, m_isShuttingDown, m_processingThread>>
       \/ /\ step(t, "queueAll", "joinable")
          /\ unlock(t, {"m_mutex"})
          /\ m_isShuttingDown' = TRUE
          /\ UNCHANGED <<m_handleMap, m_processingThread>>
       \/ /\ step(t, "joinable", IF m_processingThread = "joinable" THEN "join" ELSE "done")
          /\ UNCHANGED <<owner, m_handleMap, m_isShuttingDown, m_processingThread>>
       \/ /\ at["processingThread"] = "done"
          /\ step(t, "join", "done")
          /\ m_processingThread' = "joined"
          /\ UNCHANGED <<owner, m_handleMap, m_isShuttingDown>>
       \/ /\ \/ m_processingThread = "joined"
             \/ \E o \in ShutdownThreads \ {t} : at[o] \in {"join", "undefined"}
          /\ step(t, "join", "undefined")
          /\ UNCHANGED <<owner, m_handleMap, m_isShuttingDown, m_processingThread>>
    /\ UNCHANGED lockingFrame

\* DirectiveHandlerResult::setCompleted / setFailed, lines 132-150, with
\* onHandlingCompleted / onHandlingFailed, lines 152-180: m_mutex is released when these
\* return, m_handleMapMutex afterwards, when setCompleted / setFailed return.
resultLocking ==
    /\ \/ step("DirectiveHandlerResult", "idle", "lockHandleMapMutex") /\ UNCHANGED owner
       \/ step("DirectiveHandlerResult", "lockHandleMapMutex", "find")
              /\ lock("DirectiveHandlerResult", "m_handleMapMutex")
       \/ /\ m_handle \notin m_handleMap
          /\ step("DirectiveHandlerResult", "find", "idle")
          /\ unlock("DirectiveHandlerResult", {"m_handleMapMutex"})
       \/ /\ m_handle \in m_handleMap
          /\ step("DirectiveHandlerResult", "find", "lockMutex") /\ UNCHANGED owner
       \/ step("DirectiveHandlerResult", "lockMutex", "apply")
              /\ lock("DirectiveHandlerResult", "m_mutex")
       \/ step("DirectiveHandlerResult", "apply", "unlockHandleMapMutex")
              /\ unlock("DirectiveHandlerResult", {"m_mutex"})
       \/ step("DirectiveHandlerResult", "unlockHandleMapMutex", "idle")
              /\ unlock("DirectiveHandlerResult", {"m_handleMapMutex"})
    /\ UNCHANGED processorVars

LockNext ==
    \/ \E t \in OnDirectiveThreads : onDirectiveLocking(t)
    \/ setDialogRequestIdLocking
    \/ processingLoopLocking
    \/ processCancelingQueueLocking
    \/ handleDirectiveLocking
    \/ \E t \in ShutdownThreads : shutdownLocking(t)
    \/ resultLocking

LockSpec == Init /\ [][LockNext]_vars

Count(q, d) == Cardinality({i \in 1..Len(q) : q[i] = d})

Increasing(q) == \A i, j \in 1..Len(q) : i < j => q[i] < q[j]

Last(q) == q[Len(q)]

TypeOK ==
    /\ m_dialogRequestId \in DialogRequestIds
    /\ m_directiveBeingPreHandled \in Directives \cup {NoDirective}
    /\ m_handlingQueue \in Seq(Directives)
    /\ m_cancelingQueue \in Seq(Directives)
    /\ m_isHandlingDirective \in BOOLEAN
    /\ m_isShuttingDown \in BOOLEAN
    /\ loopPc \in {"wait", "blocked", "canceling", "handling", "handled", "done"}
    /\ onDirectivePc \in {"idle", "unlocked", "preHandled"}
    /\ shutdownPc \in [ShutdownPositions -> 0..Cardinality(ShutdownThreads)]
    /\ m_processingThread \in {"joinable", "joined"}
    /\ nextMessageId \in 0..MaxDirectives

(***************************************************************************)
(* C1.  For every directive whose preHandleDirective was accepted, the     *)
(* router's handleDirective is called at most once and the router's        *)
(* cancelDirective is called at most once, under every interleaving.       *)
(***************************************************************************)
C1_AtMostOnce ==
    \A d \in Directives :
        preHandleCalls[d] = "accepted" =>
            Count(handleCalls, d) <= 1 /\ Count(cancelCalls, d) <= 1

\* Two accepted directives, one of them handled and one of them canceled.
C1_Witness ==
    /\ \A d \in {1, 2} : preHandleCalls[d] = "accepted"
    /\ \E d \in {1, 2} : Count(handleCalls, d) = 1
    /\ \E d \in {1, 2} : Count(cancelCalls, d) = 1

(***************************************************************************)
(* C2 as stated.  For every directive whose preHandleDirective was         *)
(* accepted, the router never receives both handleDirective and            *)
(* cancelDirective.                                                        *)
(***************************************************************************)
C2_NotBoth ==
    \A d \in Directives :
        preHandleCalls[d] = "accepted" =>
            ~(d \in Range(handleCalls) /\ d \in Range(cancelCalls))

(***************************************************************************)
(* C2 as amended.  For every directive whose preHandleDirective was        *)
(* accepted, handleDirective is never called once cancelDirective has been *)
(* called for it.  (cancelDirective may follow handleDirective.)           *)
(***************************************************************************)
C2_NoHandleAfterCancel ==
    [][handleCalls' # handleCalls =>
          (preHandleCalls[Last(handleCalls')] = "accepted" =>
              Last(handleCalls') \notin Range(cancelCalls))]_vars

\* An accepted directive for which handleDirective and then cancelDirective were called.
C2_Witness ==
    \E d \in Directives :
        /\ preHandleCalls[d] = "accepted"
        /\ d \in Range(handleCalls)
        /\ d \in Range(cancelCalls)

(***************************************************************************)
(* C3.  handleDirective is called in the order in which the directives     *)
(* were accepted, and it is not called for a directive while another       *)
(* directive that was handled with BLOCKING is still in the handling queue *)
(* (its result has not been reported and it was not canceled).             *)
(***************************************************************************)
C3_HandleOrder ==
    [][handleCalls' # handleCalls =>
          /\ \A i \in 1..Len(handleCalls) : handleCalls[i] < Last(handleCalls')
          /\ blockingHandled = {}]_vars

\* Both directives were handled and nothing was canceled; the second call has returned.
C3_Witness ==
    /\ handleCalls = <<1, 2>>
    /\ cancelCalls = <<>>
    /\ loopPc = "handled"
    /\ directive = 2
    /\ cancelCause = [d \in Directives |-> "none"]

(***************************************************************************)
(* C4 as stated.  setDialogRequestId with a new id leaves no directive in  *)
(* the pre-handling slot or the handling queue, and handleDirective is     *)
(* never called afterwards for a directive that this setDialogRequestId    *)
(* queued for cancellation.                                                *)
(***************************************************************************)
C4_NoHandleAfterSetDialog ==
    [][/\ (\E id \in DialogRequestIds : id # m_dialogRequestId /\ setDialogRequestId(id)) =>
            (m_directiveBeingPreHandled' = NoDirective /\ m_handlingQueue' = <<>>)
       /\ handleCalls' # handleCalls =>
            cancelCause[Last(handleCalls')] # "setDialogRequestId"]_vars

(***************************************************************************)
(* C5.  cancelDirective is called in the order in which the directives     *)
(* were ingested: the message ids, numbered by ingest, increase along the  *)
(* calls.                                                                  *)
(***************************************************************************)
C5_CancelOrder == Increasing(cancelCalls)

\* cancelDirective was called for both directives.
C5_Witness == Len(cancelCalls) = 2 /\ cancelCalls[1] # cancelCalls[2]

(***************************************************************************)
(* C6 as stated.  After shutdown has returned the processing thread has    *)
(* terminated and no call of preHandleDirective, handleDirective or        *)
(* cancelDirective is started.                                             *)
(***************************************************************************)
C6_NoCallAfterShutdown ==
    [][shutdownPc["returned"] > 0
          => (loopPc = "done" /\ UNCHANGED routerHistory)]_vars

(***************************************************************************)
(* C7.  A setCompleted / setFailed call that finds the handle erased from  *)
(* m_handleMap changes none of the guarded fields and starts no router     *)
(* call, and onHandlingCompleted / onHandlingFailed never run once the     *)
(* handle has been erased.                                                 *)
(***************************************************************************)
C7_ResultAfterShutdown ==
    /\ [](resultPc # <<>> => m_handle \in m_handleMap)
    /\ [][(~resultIgnored /\ resultIgnored') =>
             /\ m_handle \notin m_handleMap
             /\ UNCHANGED <<lockedState, routerHistory, loopPc, resultPc>>]_vars

\* A result call was ignored after shutdown had returned.
C7_Witness == resultIgnored /\ shutdownPc["returned"] > 0

(***************************************************************************)
(* C8 as stated.  When setFailed names a directive of the handling queue,  *)
(* that directive is removed without being queued for cancellation, every  *)
(* other directive of the pre-handling slot and handling queue is moved to *)
(* the canceling queue in order, and handleDirective is never called for   *)
(* any of those.                                                           *)
(***************************************************************************)
C8_FailedCancelsSiblings ==
    [][/\ (/\ resultPc # <<>> /\ resultPc' = <<>>
           /\ resultPc[1] = "setFailed"
           /\ resultPc[2] # m_directiveBeingPreHandled
           /\ resultPc[2] \in Range(m_handlingQueue)) =>
            /\ resultPc[2] \notin Range(m_cancelingQueue')
            /\ m_directiveBeingPreHandled' = NoDirective
            /\ m_handlingQueue' = <<>>
            /\ Range(m_cancelingQueue') = (Range(m_cancelingQueue) \cup Range(m_handlingQueue)
                    \cup ({m_directiveBeingPreHandled} \ {NoDirective})) \ {resultPc[2]}
       /\ handleCalls' # handleCalls =>
            cancelCause[Last(handleCalls')] # "onHandlingFailed:handlingQueue"]_vars

(***************************************************************************)
(* C9.  With the processing thread scheduled fairly and router calls       *)
(* returning, work never stays unserved: whenever the canceling queue or   *)
(* the buffer being canceled is non-empty, or the handling queue is        *)
(* non-empty with its head not being handled, a state follows in which the *)
(* canceling queue and the buffer are empty (every directive in them was   *)
(* passed to cancelDirective or removed by its result object) and the      *)
(* handling queue is empty or its head has been dispatched.  No wake-up is *)
(* lost.                                                                   *)
(***************************************************************************)
Unserved ==
    \/ m_cancelingQueue # <<>>
    \/ temp # <<>>
    \/ (m_handlingQueue # <<>> /\ ~m_isHandlingDirective)

C9_NoLostWakeup == Unserved ~> ~Unserved

\* The processing thread waits on the condition variable behind a BLOCKING head while the
\* next directive is queued.
C9_Witness ==
    /\ loopPc = "blocked"
    /\ m_handlingQueue = <<1, 2>>
    /\ blockingHandled = {1}
    /\ m_isHandlingDirective

(***************************************************************************)
(* C10 as stated.  onDirective with a directive whose dialogRequestId      *)
(* differs from m_dialogRequestId returns true, makes no router call and   *)
(* leaves the slot, the queues, the dialog id and the flags unchanged.     *)
(***************************************************************************)
C10_StaleDropped ==
    [][\A id \in DialogRequestIds :
          (id # m_dialogRequestId /\ onDirectiveLocked(id)) =>
              (onDirectiveReturn' = "true" /\ UNCHANGED <<lockedState, routerHistory, onDirectivePc>>)]_vars

(***************************************************************************)
(* C10 as amended.  The same, for a processor that is not shutting down.   *)
(***************************************************************************)
C10_StaleDroppedUnlessShuttingDown ==
    [][\A id \in DialogRequestIds :
          (~m_isShuttingDown /\ id # m_dialogRequestId /\ onDirectiveLocked(id)) =>
              (onDirectiveReturn' = "true" /\ UNCHANGED <<lockedState, routerHistory, onDirectivePc>>)]_vars

\* onDirective returned true although no directive was ever admitted: it dropped a directive
\* of another dialog.
C10_Witness ==
    /\ onDirectiveReturn = "true"
    /\ nextMessageId = 0
    /\ m_dialogRequestId = "D1"
    /\ ~m_isShuttingDown

(***************************************************************************)
(* C11 as stated.  While m_dialogRequestId is empty onDirective admits no  *)
(* directive: it places nothing in the pre-handling slot and does not call *)
(* preHandleDirective, whatever the directive's own dialogRequestId.       *)
(***************************************************************************)
C11_EmptyDialogAdmitsNothing ==
    [][m_dialogRequestId = "" =>
          (nextMessageId' = nextMessageId /\ preHandleCalls' = preHandleCalls)]_vars

(***************************************************************************)
(* C12.  m_isShuttingDown never goes back to false; an onDirective call    *)
(* that makes its checks with m_isShuttingDown set, and a call with a null *)
(* directive, return false, call no router operation and leave the slot,   *)
(* the queues, the dialog id and the flags unchanged.                      *)
(***************************************************************************)
C12_ShuttingDownRejects ==
    [][/\ m_isShuttingDown => m_isShuttingDown'
       /\ (m_isShuttingDown /\ \E id \in DialogRequestIds : onDirectiveLocked(id)) =>
             /\ onDirectiveReturn' = "false"
             /\ UNCHANGED <<lockedState, routerHistory, onDirectivePc, nextMessageId>>
       /\ onDirectiveNull =>
             /\ onDirectiveReturn' = "false"
             /\ UNCHANGED <<lockedState, routerHistory, onDirectivePc, nextMessageId>>]_vars

\* onDirective returned false on a processor that is shutting down and that could still
\* have admitted a directive.
C12_Witness ==
    /\ m_isShuttingDown
    /\ onDirectiveReturn = "false"
    /\ onDirectivePc = "idle"
    /\ nextMessageId < MaxDirectives

(***************************************************************************)
(* C13.  Every directive is in at most one of the pre-handling slot, the   *)
(* handling queue and the canceling queue, and at most once in a queue.    *)
(***************************************************************************)
C13_InOnePlace ==
    \A d \in Directives :
        Count(m_handlingQueue, d) + Count(m_cancelingQueue, d)
            + (IF m_directiveBeingPreHandled = d THEN 1 ELSE 0) <= 1

\* One directive waits for cancellation while the next one is being pre-handled.
C13_Witness ==
    /\ m_cancelingQueue = <<1>>
    /\ m_directiveBeingPreHandled = 2

(***************************************************************************)
(* C14.  While m_isHandlingDirective is set the handling queue is          *)
(* non-empty and its head is the directive the processing thread           *)
(* dispatched last; a step that changes the head of the handling queue     *)
(* leaves the flag cleared.                                                *)
(***************************************************************************)
lastDispatched ==
    IF loopPc \in {"handling", "handled"} THEN directive
    ELSE IF handleCalls # <<>> THEN Last(handleCalls)
    ELSE NoDirective

C14_HandlingFlag ==
    /\ [](m_isHandlingDirective =>
            (m_handlingQueue # <<>> /\ Head(m_handlingQueue) = lastDispatched))
    /\ [][(m_isHandlingDirective /\ m_handlingQueue # <<>>
            /\ (m_handlingQueue' = <<>> \/ Head(m_handlingQueue') # Head(m_handlingQueue)))
          => ~m_isHandlingDirective']_vars

\* The processing thread waits behind a head that was handled with BLOCKING.
C14_Witness ==
    /\ m_isHandlingDirective
    /\ loopPc = "blocked"
    /\ Len(m_handlingQueue) = 2
    /\ handleCalls = <<1>>

(***************************************************************************)
(* C15.  When preHandleDirective has returned, onDirective appends the     *)
(* directive to the handling queue exactly if it was accepted and the      *)
(* pre-handling slot still holds it; nothing else appends to the handling  *)
(* queue, the processing thread dispatches only the head of the handling   *)
(* queue, and a directive whose onDirective call is in progress is neither *)
(* in the handling queue nor dispatched.  So a directive taken from the    *)
(* slot while m_mutex was released is never passed to handleDirective.     *)
(***************************************************************************)
C15_EnqueueOnlyIfStillInSlot ==
    /\ [](onDirectivePc # "idle" =>
            /\ m_directiveBeingPreHandled \in {NoDirective, nextMessageId}
            /\ nextMessageId \notin Range(m_handlingQueue)
            /\ nextMessageId \notin Range(handleCalls)
            /\ directive # nextMessageId)
    /\ [][/\ (onDirectivePc = "preHandled" /\ onDirectivePc' = "idle") =>
                m_handlingQueue' =
                    IF preHandled /\ m_directiveBeingPreHandled = nextMessageId
                    THEN Append(m_handlingQueue, nextMessageId)
                    ELSE m_handlingQueue
          /\ (Range(m_handlingQueue') \ Range(m_handlingQueue) # {}) =>
                (onDirectivePc = "preHandled" /\ onDirectivePc' = "idle")
          /\ (loopPc # "handling" /\ loopPc' = "handling") =>
                (m_handlingQueue # <<>> /\ directive' = Head(m_handlingQueue))
          /\ handleCalls' # handleCalls =>
                (loopPc = "handling" /\ handleCalls' = Append(handleCalls, directive))]_vars

\* preHandleDirective accepted the directive, but the slot was emptied meanwhile: the
\* directive is in the canceling queue when onDirective resumes.
C15_Witness ==
    /\ onDirectivePc = "preHandled"
    /\ preHandled
    /\ m_directiveBeingPreHandled = NoDirective
    /\ nextMessageId \in Range(m_cancelingQueue)

(***************************************************************************)
(* C16.  Under fair scheduling of the processing thread, once              *)
(* m_isShuttingDown is set the processing thread leaves its loop.  The     *)
(* step that sets the flag moves every outstanding directive to the        *)
(* canceling queue; a directive leaves the canceling queue or the batch    *)
(* being canceled only by a cancelDirective call or by a result callback   *)
(* naming it; and when the loop is left the slot, both queues and the      *)
(* batch are empty.                                                        *)
(***************************************************************************)
Outstanding ==
    Range(m_handlingQueue) \cup Range(m_cancelingQueue) \cup Range(temp)
        \cup (IF m_directiveBeingPreHandled # NoDirective
              THEN {m_directiveBeingPreHandled} ELSE {})

C16_ShutdownDrains ==
    /\ m_isShuttingDown ~> (loopPc = "done")
    /\ [](loopPc = "done" => (m_isShuttingDown /\ Outstanding = {}))
    /\ [][/\ (~m_isShuttingDown /\ m_isShuttingDown') =>
                /\ m_directiveBeingPreHandled' = NoDirective
                /\ m_handlingQueue' = <<>>
                /\ Outstanding \subseteq Range(m_cancelingQueue') \cup Range(temp')
          /\ \A d \in (Range(m_cancelingQueue) \cup Range(temp))
                          \ (Range(m_cancelingQueue') \cup Range(temp')) :
                \/ cancelCalls' = Append(cancelCalls, d)
                \/ (resultPc # <<>> /\ resultPc[2] = d /\ resultPc' = <<>>)]_vars

\* Both callers of shutdown have returned after the processing thread canceled a directive
\* and left.
C16_Witness ==
    /\ shutdownPc["returned"] = Cardinality(ShutdownThreads)
    /\ loopPc = "done"
    /\ cancelCalls # <<>>
    /\ cancelCause[Last(cancelCalls)] = "none"
    /\ handleCalls = <<>>

(***************************************************************************)
(* C18.  A result callback (setCompleted or setFailed) naming a directive  *)
(* that is only in the canceling queue removes it from that queue and      *)
(* changes neither the slot, the handling queue, the dialog id nor the     *)
(* flags, and makes no router call; a callback naming a directive that is  *)
(* in none of the three places changes nothing.                            *)
(***************************************************************************)
C18_ResultOnCancelingOnly ==
    [][(resultPc # <<>> /\ resultPc' = <<>>) =>
          LET d == resultPc[2]
          IN  (d # m_directiveBeingPreHandled /\ d \notin Range(m_handlingQueue)) =>
                /\ m_cancelingQueue' = SelectSeq(m_cancelingQueue, LAMBDA x : x # d)
                /\ UNCHANGED <<m_dialogRequestId, m_directiveBeingPreHandled, m_handlingQueue,
                               m_isHandlingDirective, m_isShuttingDown, routerHistory>>
                /\ d \notin Range(m_cancelingQueue) => UNCHANGED loopPc]_vars

\* setFailed is about to act on a directive that waits in the canceling queue while a new
\* dialog has a directive in the handling queue.
C18_Witness ==
    /\ resultPc # <<>>
    /\ resultPc[1] = "setFailed"
    /\ resultPc[2] \in Range(m_cancelingQueue)
    /\ m_dialogRequestId # ""
    /\ m_handlingQueue # <<>>

(***************************************************************************)
(* C19 as stated.  When handleDirective returns false for a directive that *)
(* setDialogRequestId moved to the canceling queue while the call was in   *)
(* progress, the processing thread leaves the dialog id, the slot and the  *)
(* handling queue as they are.                                             *)
(***************************************************************************)
C19_StaleFailureHarmless ==
    [][(/\ loopPc = "handled" /\ loopPc' = "wait"
        /\ ~handled
        /\ cancelCause[directive] = "setDialogRequestId") =>
          UNCHANGED <<m_dialogRequestId, m_directiveBeingPreHandled, m_handlingQueue>>]_vars

(***************************************************************************)
(* C20 as stated.  Every directive passed to cancelDirective or to         *)
(* handleDirective has been passed to preHandleDirective before, and       *)
(* preHandleDirective accepted it.                                         *)
(***************************************************************************)
C20_PreHandleFirst ==
    \A d \in Range(cancelCalls) \cup Range(handleCalls) : preHandleCalls[d] = "accepted"

(***************************************************************************)
(* C17.  With every lock and unlock statement as a step: a thread inside a *)
(* router call does not hold m_mutex; a DirectiveHandlerResult call holds  *)
(* m_mutex only while it holds m_handleMapMutex; shutdown never holds      *)
(* m_handleMapMutex and m_mutex together; no thread waits in a circle:     *)
(* from every thread, following "waits for" (the holder of the mutex it    *)
(* is about to lock, the processing thread that shutdown joins) ends at a  *)
(* thread that can take its next step; and a result call never waits,      *)
(* directly or through other threads, for a thread that is inside a router *)
(* call, so that it completes even if that router call waits for it.       *)
(***************************************************************************)
wants(t) ==
    IF at[t] = "lockOnDirectiveMutex" THEN "m_onDirectiveMutex"
    ELSE IF at[t] = "lockHandleMapMutex" THEN "m_handleMapMutex"
    ELSE IF at[t] \in {"lockMutex", "relock", "relockCancel", "relockHandle", "cvwait"}
    THEN "m_mutex"
    ELSE "none"

waitsFor(t) ==
    IF wants(t) # "none" /\ owner[wants(t)] # "free" THEN owner[wants(t)]
    ELSE IF t \in ShutdownThreads /\ at[t] = "join" /\ at["processingThread"] # "done"
    THEN "processingThread"
    ELSE "none"

RECURSIVE endsWaiting(_, _)
endsWaiting(t, n) ==
    IF waitsFor(t) = "none" THEN TRUE
    ELSE IF n = 0 THEN FALSE
    ELSE endsWaiting(waitsFor(t), n - 1)

RECURSIVE waitsOnRouterCall(_, _)
waitsOnRouterCall(t, n) ==
    IF waitsFor(t) = "none" THEN FALSE
    ELSE IF at[waitsFor(t)] \in RouterCalls THEN TRUE
    ELSE IF n = 0 THEN FALSE
    ELSE waitsOnRouterCall(waitsFor(t), n - 1)

lockingStep(t) ==
    \/ t \in OnDirectiveThreads /\ onDirectiveLocking(t)
    \/ t = "setDialogRequestId" /\ setDialogRequestIdLocking
    \/ t \in ShutdownThreads /\ shutdownLocking(t)
    \/ t = "DirectiveHandlerResult" /\ resultLocking
    \/ /\ t = "processingThread"
       /\ processingLoopLocking \/ processCancelingQueueLocking \/ handleDirectiveLocking

C17_NoDeadlock ==
    /\ \A t \in Threads : at[t] \in RouterCalls => owner["m_mutex"] # t
    /\ owner["m_mutex"] = "DirectiveHandlerResult"
          => owner["m_handleMapMutex"] = "DirectiveHandlerResult"
    /\ \A t \in ShutdownThreads : ~(owner["m_handleMapMutex"] = t /\ owner["m_mutex"] = t)
    /\ \A t \in Threads :
          /\ endsWaiting(t, Cardinality(Threads))
          /\ (waitsFor(t) = "none" /\ at[t] \notin {"idle", "done", "undefined"}) => ENABLED lockingStep(t)
    /\ ~waitsOnRouterCall("DirectiveHandlerResult", Cardinality(Threads))

\* A result call holds both mutexes while the processing thread and one onDirective caller
\* are inside router calls, and the other callers wait for a mutex each.
C17_Witness ==
    /\ at["DirectiveHandlerResult"] = "apply"
    /\ at["processingThread"] = "handleDirective"
    /\ at["onDirective1"] = "preHandleDirective"
    /\ at["onDirective2"] = "lockOnDirectiveMutex"
    /\ at["setDialogRequestId"] = "lockMutex"
    /\ \A t \in ShutdownThreads : at[t] = "lockHandleMapMutex"

====
